---- MODULE Spec2Model ----
(***************************************************************************)
(* Model of the detection-to-pose correlation subsystem of                 *)
(* live_animal_detector: DetectionPositionMatcher with its three threads   *)
(* (collect_detection_data, collect_camera_poses,                          *)
(* match_detection_and_pose), DynamicHeatmap and BBoxCameraPoseConverter   *)
(* (src/py/detection_tracking.py).                                         *)
(*                                                                         *)
(* Units.  Times are integers in model ticks (the code's float seconds);   *)
(* angles are whole degrees; zoom values are in tenths of a device unit;   *)
(* heat values are fixed point in thousandths (Milli = 1.0).               *)
(* A thread switch can happen between any two accesses of shared state, so *)
(* every access of a queue or of the grid is its own action.               *)
(***************************************************************************)
EXTENDS Integers, Sequences, FiniteSets, TLC

\* ------------------------------------------------------------------ bounds
\* Number of datagrams the detection collector receives in a run.
MaxDetections == 3
\* Number of camera status polls in a run.
MaxPoses == 2
\* Largest clock value: time.time() returns a value in now .. MaxTime.
MaxTime == 1
\* collections.deque(maxlen=1000) of the detection queue, scaled down.
DetectionQueueMaxlen == 2
\* collections.deque(maxlen=1000) of the pose queue, scaled down.
PoseQueueMaxlen == 1
\* collections.deque(maxlen=100) of the match queue, scaled down.
MatchQueueMaxlen == 1
\* DynamicHeatmap(pan_bins=360, tilt_bins=100), scaled down.
pan_bins == 2
tilt_bins == 1
\* Number of direct calls of add_gaussian_heat / subtract_gaussian_heat /
\* decay_heatmap in a run of the heatmap on its own.
MaxHeatCalls == 2
\* Number of clicks on the zoom buttons of the dialog in a run.
MaxZoomClicks == 1
\* The clock of the alarm runs from 0 to MaxAlarmTime seconds.
MaxAlarmTime == 4

\* ------------------------------------------------------- program constants
\* The float 1.0 of heat values and scores, in thousandths.
Milli == 1000
max_zoom == 300
pan_sigma_scale == 15
tilt_sigma_scale == 3
local_decay == Milli \div 10
img_width == 1920
img_height == 1080
fx_scale == 175
fy_scale == 17
\* `if heat < 0.01` of get_pan_tilt_heat_map, in thousandths.
HeatThreshold == 10
\* TrackMoveSequenceDialog(zoom_step=10), in tenths like zoom.
zoom_step == 100

\* ----------------------------------------------------------------- helpers
Abs(x) == IF x < 0 THEN -x ELSE x
Min(a, b) == IF a < b THEN a ELSE b
Max(a, b) == IF a > b THEN a ELSE b
\* np.clip(x, lo, hi)
Clip(x, lo, hi) == IF x < lo THEN lo ELSE IF x > hi THEN hi ELSE x
\* Python int(): truncation toward zero of the quotient n / d, d > 0.
TruncDiv(n, d) == IF n >= 0 THEN n \div d ELSE -((-n) \div d)

\* ----------------------------------------------------------- DynamicHeatmap
Bins == (0 .. pan_bins - 1) \X (0 .. tilt_bins - 1)
\* np.zeros((pan_bins, tilt_bins))
ZeroGrid == [b \in Bins |-> 0]

\* round(1000 * exp(-k / 10)) for k = 0 .. 70: np.exp in fixed point.
ExpTable ==
  << 1000, 905, 819, 741, 670, 607, 549, 497, 449, 407,
     368, 333, 301, 273, 247, 223, 202, 183, 165, 150,
     135, 122, 111, 100, 91, 82, 74, 67, 61, 55,
     50, 45, 41, 37, 33, 30, 27, 25, 22, 20,
     18, 17, 15, 14, 12, 11, 10, 9, 8, 7,
     7, 6, 6, 5, 5, 4, 4, 3, 3, 3,
     2, 2, 2, 2, 2, 2, 1, 1, 1, 1, 1 >>
\* exp(-q) in thousandths, q given in tenths.
ExpNeg(q) == IF q >= Len(ExpTable) THEN 0 ELSE ExpTable[q + 1]

\* d**2 / (2.0 * (sigma**2 + eps)) in tenths, capped at the length of the
\* table; sigma is given in hundredths.  With sigma = 0 the divisor is
\* 2 * eps = 2e-10, so the term is 0 for d = 0 and beyond the table otherwise.
KernelTerm(d, sigma) ==
  IF d = 0 THEN 0
  ELSE IF sigma = 0 THEN Len(ExpTable)
  ELSE Min(Len(ExpTable), (d * d * 10 * 100 * 100) \div (2 * sigma * sigma))

\* Faulty variant: the indices are not clipped.
pan_tilt_to_bin_unclipped(pan, tilt) ==
  << TruncDiv((pan % 360) * pan_bins, 360),
     TruncDiv((tilt + 90) * tilt_bins, 180) >>
pan_tilt_to_bin(pan, tilt) ==
  << Clip(TruncDiv((pan % 360) * pan_bins, 360), 0, pan_bins - 1),
     Clip(TruncDiv((tilt + 90) * tilt_bins, 180), 0, tilt_bins - 1) >>

\* (sigma_x, sigma_y) in hundredths; zoom in tenths.
\* zoom_scale = 1 - clip(0.01 + zoom / max_zoom, 0, 1), in thousandths.
zoom_to_sigma(zoom) ==
  LET zoom_scale == Milli - Clip(10 + TruncDiv(zoom * 100, max_zoom), 0, Milli)
  IN  << (zoom_scale * pan_sigma_scale) \div 10,
         (zoom_scale * tilt_sigma_scale) \div 10 >>

\* The transposed kernel, indexed like the grid, in thousandths.
make_gaussian_kernel(pan, tilt, sigma_x, sigma_y) ==
  LET c == pan_tilt_to_bin(pan, tilt)
  IN  [b \in Bins |->
         ExpNeg(Min(Len(ExpTable),
                    KernelTerm(b[1] - c[1], sigma_x)
                      + KernelTerm(b[2] - c[2], sigma_y)))]

\* heat * kernel, both in thousandths.
ScaledKernel(pan, tilt, sigma_x, sigma_y, heat) ==
  LET k == make_gaussian_kernel(pan, tilt, sigma_x, sigma_y)
  IN  [b \in Bins |-> TruncDiv(heat * k[b], Milli)]

\* Faulty variant: the kernel is added to the grid (np.add for np.maximum).
add_gaussian_heat_sums(grid, pan, tilt, sigma_x, sigma_y, heat) ==
  LET kernel == ScaledKernel(pan, tilt, sigma_x, sigma_y, heat)
  IN  [b \in Bins |-> grid[b] + kernel[b]]
\* The grid add_gaussian_heat assigns, computed from the grid it read.
add_gaussian_heat(grid, pan, tilt, sigma_x, sigma_y, heat) ==
  LET kernel == ScaledKernel(pan, tilt, sigma_x, sigma_y, heat)
  IN  [b \in Bins |-> Max(grid[b], kernel[b])]

\* Faulty variant: the kernel is subtracted from the grid (np.subtract for
\* np.multiply).
subtract_gaussian_heat_from_grid(grid, pan, tilt, sigma_x, sigma_y, heat) ==
  LET kernel == ScaledKernel(pan, tilt, sigma_x, sigma_y, heat)
  IN  [b \in Bins |-> grid[b] - kernel[b]]
\* The grid subtract_gaussian_heat assigns, computed from the grid it read.
subtract_gaussian_heat(grid, pan, tilt, sigma_x, sigma_y, heat) ==
  LET kernel == ScaledKernel(pan, tilt, sigma_x, sigma_y, heat)
  IN  [b \in Bins |-> TruncDiv(grid[b] * (Milli - kernel[b]), Milli)]

\* Faulty variant: the decay leaves the grid as it is.
decay_heatmap_skips(grid, camera_pose) == grid
\* decay_heatmap(camera_pose) applied to the grid it read.
decay_heatmap(grid, camera_pose) ==
  LET s == zoom_to_sigma(camera_pose.zoom)
  IN  subtract_gaussian_heat(grid, camera_pose.pan, camera_pose.tilt,
                             s[1], s[2], local_decay)

\* One iteration of the loop of update(): the add for one (pose, score).
UpdateOne(grid, pose, score) ==
  LET s == zoom_to_sigma(pose.zoom)
  IN  add_gaussian_heat(grid, pose.pan, pose.tilt, s[1], s[2], score)

\* Faulty variant: the angles two bins further on.
bin_to_pan_tilt_from_end(p_idx, t_idx) ==
  << ((p_idx + 2) * 360) \div pan_bins, ((t_idx + 2) * 180) \div tilt_bins - 90 >>
\* bin_to_pan_tilt in whole degrees (exact whenever pan_bins divides 360 and
\* tilt_bins divides 180).
bin_to_pan_tilt(p_idx, t_idx) ==
  << (p_idx * 360) \div pan_bins, (t_idx * 180) \div tilt_bins - 90 >>

\* get_heatval_at_pan_tilt on the grid it reads.
get_heatval_at_pan_tilt(grid, pan, tilt) == grid[pan_tilt_to_bin(pan, tilt)]
\* get_map on the grid it reads.
get_map(grid) == grid
\* get_norm_heatval on the grid it reads.
get_norm_heatval(grid, p_idx, t_idx) == Clip(grid[<< p_idx, t_idx >>], 0, Milli)

\* Faulty variant: a cell exactly at the threshold is skipped too.
BelowThresholdInclusive(heat) == heat <= HeatThreshold
\* `if heat < 0.01: continue`
BelowThreshold(heat) == heat < HeatThreshold

\* ------------------------------------------------- BBoxCameraPoseConverter
\* np.degrees(np.arctan(z)) in whole degrees for 0 <= z <= 1 given in
\* thousandths: z * (45 + 15.64 * (1 - z)), truncated.
ArcTanDegUnit(z) == (z * (60640 - 16 * z)) \div (Milli * Milli)
\* np.degrees(np.arctan(n / d)) in whole degrees, d # 0.
ArcTanDeg(n, d) ==
  LET z == (Abs(n) * Milli) \div Abs(d)
      a == IF z <= Milli THEN ArcTanDegUnit(z)
           ELSE 90 - ArcTanDegUnit((Milli * Milli) \div z)
  IN  IF (n < 0) # (d < 0) THEN -a ELSE a

\* Faulty variant: a box of no width counts as a normal box.
NormalBoxInclusive(bbox) == bbox[1] <= bbox[3]
\* `if x0 < x1`
NormalBox(bbox) == bbox[1] < bbox[3]

\* Faulty variant: the width is taken without its sign, so a reversed box
\* zooms in like a normal one.
scale_ignores_order(bbox) ==
  IF bbox[1] = bbox[3] THEN << 0, img_width >>
  ELSE << img_width, Abs(bbox[3] - bbox[1]) >>
\* `scale` of lines 167-170 as the fraction << numerator, denominator >>.
scale(bbox) ==
  IF NormalBox(bbox) THEN << img_width, bbox[3] - bbox[1] >>
  ELSE << bbox[1] - bbox[3], img_width >>

\* new_zoom = cam_pose["zoom"] * scale * 0.1 as a fraction of tenths (zoom is
\* in tenths).
new_zoom(bbox, cam_pose) ==
  << cam_pose.zoom * scale(bbox)[1], 10 * scale(bbox)[2] >>

\* The divisions of convert(): by fx = zoom * fx_scale, by fy = zoom *
\* fy_scale (a float divided by 0 raises ZeroDivisionError) and, for a
\* normal box, by x1 - x0.
ConvertRaises(bbox, cam_pose) ==
  \/ cam_pose.zoom * fx_scale = 0
  \/ cam_pose.zoom * fy_scale = 0
  \/ (NormalBox(bbox) /\ bbox[3] - bbox[1] = 0)

\* convert(bbox, cam_pose) when it returns; bbox = <<x0, y0, x1, y1>>.
\* (x_center - cx) / fx = ((x0 + x1 - img_width) / 2) / (zoom / 10 * fx_scale).
convert(bbox, cam_pose) ==
  LET x0 == bbox[1]
      y0 == bbox[2]
      x1 == bbox[3]
      y1 == bbox[4]
      delta_pan == ArcTanDeg(5 * (x0 + x1 - img_width), cam_pose.zoom * fx_scale)
      delta_tilt == ArcTanDeg(5 * (y0 + y1 - img_height), cam_pose.zoom * fy_scale)
      z == new_zoom(bbox, cam_pose)
  IN  [pan |-> cam_pose.pan + delta_pan,
       tilt |-> cam_pose.tilt + delta_tilt,
       zoom |-> TruncDiv(z[1], z[2])]

\* ------------------------------------------------------------------- state
VARIABLES
  cam_detection_data_queue,   \* deque of detection dicts (line 203)
  cam_pose_queue,             \* deque of pose dicts (line 204)
  detection_pose_match_queue, \* deque of matched detection dicts (line 206)
  curr_pose,                  \* self.curr_pose (line 205)
  heat_map,                   \* self.heat_map.heatmap, the grid
  min_dt,                     \* self.min_dt
  frame_to_pose_latency,      \* self.frame_to_pose_latency
  now,                        \* the last value time.time() returned
  pose_pc,                    \* where collect_camera_poses stands
  status,                     \* its local `pose`, the dict get_status returned
  decay_read,                 \* the grid subtract_gaussian_heat read
  match_pc,                   \* where match_detection_and_pose stands
  detection,                  \* its local `detection` (peeked head)
  pose,                       \* its local `pose` (peeked head)
  detections,                 \* its local `detections` (popped)
  cam_pose,                   \* its local `cam_pose` (popped)
  update_index,               \* position of the loop of update()
  update_read,                \* the grid add_gaussian_heat read
  det_log,                    \* history: timestamps of the detections enqueued
  pose_log,                   \* history: timestamps of the poses enqueued
  det_out,                    \* history: detections that left their queue
  pose_out,                   \* history: poses that left their queue
  matches,                    \* history: the pairs the matcher appended
  last_write,                 \* history: the last assignment of self.heatmap
  det_pc,                     \* whether collect_detection_data still runs
  read_pc,                    \* where get_pan_tilt_heat_map stands
  read_index,                 \* its loop position: the cell (p_idx, t_idx)
  read_heat,                  \* its local `heat`, the value that was tested
  pan_tilt_map,               \* its local dict, as a set of <<key, value>>
  read_grids,                 \* history: the grids its reads were made from
  read_tested,                \* history: <<key, heat>> for each cell that passed
  heat_calls,                 \* number of direct calls of the heatmap's methods
  added,                      \* history: the heats passed to add_gaussian_heat
  decay_log,                  \* history: ids of the poses decay_heatmap was applied for
  det_in,                     \* history: the payload of the last datagram enqueued
  slept,                      \* history: the matcher's last iteration slept
  write_detections,           \* self.write_detections
  file,                       \* the file at self.detection_pose_file_path
  ctor_pc,                    \* where __init__ stands
  sock,                       \* self.sock: the UDP socket of line 202
  ui,                         \* the dialog: its last operation, the zoom it used
  call,                       \* a direct call of a function: arguments and result
  alarm                       \* the Alarm of stream_camera.py and its calls

vars ==
  << cam_detection_data_queue, cam_pose_queue, detection_pose_match_queue,
     curr_pose, heat_map, min_dt, frame_to_pose_latency, now,
     pose_pc, status, decay_read,
     match_pc, detection, pose, detections, cam_pose, update_index, update_read,
     det_log, pose_log, det_out, pose_out, matches, last_write,
     det_pc, read_pc, read_index, read_heat, pan_tilt_map, read_grids,
     read_tested, heat_calls, added, decay_log, det_in, slept, write_detections,
     file,
     ctor_pc, sock, ui, call, alarm >>

queues == << cam_detection_data_queue, cam_pose_queue, detection_pose_match_queue >>
config == << min_dt, frame_to_pose_latency >>
pose_locals == << pose_pc, status, decay_read >>
match_locals == << detection, pose, detections, cam_pose, update_index, update_read >>
history == << det_log, pose_log, det_out, pose_out, matches, last_write >>
reader == << read_pc, read_index, read_heat, pan_tilt_map, read_grids, read_tested >>
client == << reader, heat_calls, added >>
collected == << decay_log, det_in, slept >>
ctor == << ctor_pc, sock >>
callers == << ui, call, alarm >>
outside == << write_detections, file, ctor, callers >>
env == << collected, outside >>

\* ------------------------------------------------------------------ inputs
\* Values of min_dt_ms and frame_to_pose_latency_ms, in ticks.
MinDtValues == {0, 1}
LatencyValues == {1}

\* A box centred in the image, half as wide and high as the image.
CenterBox ==
  << img_width \div 4, img_height \div 4,
     (3 * img_width) \div 4, (3 * img_height) \div 4 >>

\* The capture times a detector stamps on a frame: the frame was captured
\* some latency before its datagram arrives.
FrameTimes == { t - l : t \in 0 .. MaxTime, l \in LatencyValues }

\* The detection events a datagram decodes to.  `keys` are the keys of the
\* dict.
Datagrams ==
  { [keys |-> {"bboxes", "scores", "timestamp"}, timestamp |-> t,
     bboxes |-> << CenterBox >>, scores |-> << 900 >>] : t \in FrameTimes }

\* The dicts get_status can return: pan = azimuth / 10.0, tilt, zoom (in
\* tenths: 10.0 and 0).
CameraStatuses ==
  { [pan |-> 0, tilt |-> 0, zoom |-> 100],
    [pan |-> 0, tilt |-> 0, zoom |-> 0] }

\* No datagram has been enqueued yet.
NoDatagram == [keys |-> {}, timestamp |-> 0, bboxes |-> << >>, scores |-> << >>]
\* The dialog has done nothing yet.
NoUi == [op |-> "none", zoom |-> 0, clicks |-> 0]
\* No function has been called.
NoCall == [fn |-> "none", args |-> << >>, result |-> << >>]
\* An Alarm that has not been called: its two fields alarm_cool_down_s and
\* last_alarm_s, the last clock value, and of its last call: whether a
\* detection met its threshold, the time elapsed since last_alarm_s, whether
\* the sounds were played, the detections returned.  last_alert is the time
\* of the last alert, -1 before the first; calls counts the calls modulo 2.
NoAlarm ==
  [alarm_cool_down_s |-> 0, last_alarm_s |-> 0, clock |-> 0, calls |-> 0,
   met |-> FALSE, elapsed |-> 0, alert |-> FALSE, last_alert |-> -1,
   alarm_detections |-> << >>]
\* The file has not been created.
NoFile == [written |-> FALSE, content |-> << >>]
NoDetection ==
  [id |-> 0, keys |-> {}, timestamp |-> 0, bboxes |-> << >>, scores |-> << >>,
   poses |-> << >>]
NoPose == [id |-> 0, pan |-> 0, tilt |-> 0, zoom |-> 0, timestamp |-> 0]

\* ------------------------------------------------------- collections.deque
\* Faulty variant: a deque without maxlen, which grows.
DequeAppendUnbounded(q, x, maxlen) == Append(q, x)
\* Faulty variant: a full deque refuses the new item instead of dropping the oldest.
DequeAppendDropsNewest(q, x, maxlen) ==
  IF Len(q) >= maxlen THEN q ELSE Append(q, x)
\* deque.append on a deque(maxlen=n): a full deque drops its leftmost item.
DequeAppend(q, x, maxlen) ==
  IF Len(q) >= maxlen THEN Append(Tail(q), x) ELSE Append(q, x)
\* The items a DequeAppend drops.
Evicted(q, maxlen) == IF Len(q) >= maxlen THEN << Head(q) >> ELSE << >>
\* Faulty variant: deque[-1], the newest item.
PeekRight(q) == q[Len(q)]
\* deque[0]
PeekLeft(q) == q[1]
\* Faulty variant: the head is read and left in the deque.
PopLeftKeeps(q) == q
\* deque.popleft(): the deque that remains.
PopLeft(q) == Tail(q)

\* An assignment of self.heatmap: who made it, the grid it had read, and the
\* pose and heat of its kernel.
NoWrite == [by |-> "none", read |-> ZeroGrid, pan |-> 0, tilt |-> 0, zoom |-> 0,
            heat |-> 0]
\* The grid the assignment w leaves when it is made from the grid g.
ApplyWrite(w, g) ==
  IF w.by = "decay" THEN decay_heatmap(g, w)
  ELSE IF w.by = "update" THEN UpdateOne(g, w, w.heat)
  ELSE g

\* The fields __init__ assigns (lines 191-208), the locals of the threads
\* and the histories, all empty.
Fields ==
  /\ cam_detection_data_queue = << >>
  /\ cam_pose_queue = << >>
  /\ detection_pose_match_queue = << >>
  /\ curr_pose = NoPose
  /\ heat_map = ZeroGrid
  /\ min_dt \in MinDtValues
  /\ frame_to_pose_latency \in LatencyValues
  /\ now = 0
  /\ status = NoPose
  /\ decay_read = ZeroGrid
  /\ detection = NoDetection
  /\ pose = NoPose
  /\ detections = NoDetection
  /\ cam_pose = NoPose
  /\ update_index = 0
  /\ update_read = ZeroGrid
  /\ det_log = << >>
  /\ pose_log = << >>
  /\ det_out = << >>
  /\ pose_out = << >>
  /\ matches = << >>
  /\ last_write = NoWrite
  /\ read_pc = "idle"
  /\ read_index = 0
  /\ read_heat = 0
  /\ pan_tilt_map = {}
  /\ read_grids = {}
  /\ read_tested = {}
  /\ heat_calls = 0
  /\ added = {}
  /\ decay_log = << >>
  /\ det_in = NoDatagram
  /\ slept = FALSE
  /\ file = NoFile
  /\ ui = NoUi

\* __init__ has returned: the socket is bound and the three threads started.
Started ==
  /\ sock = "bound"
  /\ det_pc = "run"
  /\ pose_pc = "get_status"
  /\ match_pc = "loop"
  /\ ctor_pc = "done"
  /\ call = NoCall
  /\ alarm = NoAlarm

\* The state after construction with the default write_detections=False.
Init ==
  /\ Fields
  /\ Started
  /\ write_detections = FALSE

\* ------------------------------------------------- collect_detection_data
\* One pass of the loop with a datagram that decodes to the non-empty
\* object d: stamp it with t = time.time() if it has no timestamp, append it.
\* Faulty variant: every payload is stamped with the arrival time.
StampAlways(d, t) == t
\* `if "timestamp" not in data: data["timestamp"] = time.time()`: the
\* timestamp the enqueued dict carries.
Stamp(d, t) == IF "timestamp" \in d.keys THEN d.timestamp ELSE t

CollectDetectionData(d, t) ==
  /\ det_pc = "run"
  /\ Len(det_log) < MaxDetections
  /\ now' = IF "timestamp" \in d.keys THEN now ELSE t
  /\ det_in' = d
  /\ LET data == [id |-> Len(det_log) + 1,
                  keys |-> d.keys \cup {"timestamp"},
                  timestamp |-> Stamp(d, t),
                  bboxes |-> d.bboxes,
                  scores |-> d.scores,
                  poses |-> << >>]
     IN  /\ cam_detection_data_queue' =
              DequeAppend(cam_detection_data_queue, data, DetectionQueueMaxlen)
         /\ det_log' = Append(det_log, data.timestamp)
         /\ det_out' = det_out \o
              [i \in 1 .. Len(Evicted(cam_detection_data_queue, DetectionQueueMaxlen)) |->
                 [id |-> Evicted(cam_detection_data_queue, DetectionQueueMaxlen)[i].id,
                  how |-> "evicted"]]
  /\ UNCHANGED << det_pc, decay_log, slept, outside, client, cam_pose_queue,
                  detection_pose_match_queue, curr_pose, heat_map, config,
                  pose_locals, match_pc, match_locals, pose_log, pose_out,
                  matches, last_write >>

\* --------------------------------------------------- collect_camera_poses
\* get_status() returns s; decay_heatmap(pose) starts: subtract_gaussian_heat
\* reads self.heatmap.
GetStatus(s) ==
  /\ pose_pc = "get_status"
  /\ Len(pose_log) < MaxPoses
  /\ status' = [id |-> Len(pose_log) + 1, pan |-> s.pan, tilt |-> s.tilt,
                zoom |-> s.zoom, timestamp |-> 0]
  /\ decay_read' = heat_map
  /\ pose_pc' = "decay_write"
  /\ UNCHANGED << det_pc, env, client, queues, curr_pose, heat_map, config,
                  now, match_pc, match_locals, history >>

\* subtract_gaussian_heat assigns self.heatmap.
DecayWrite ==
  /\ pose_pc = "decay_write"
  /\ heat_map' = decay_heatmap(decay_read, status)
  /\ decay_read' = ZeroGrid
  /\ pose_pc' = "append"
  /\ decay_log' = Append(decay_log, status.id)
  /\ last_write' = [by |-> "decay", read |-> decay_read, pan |-> status.pan,
                    tilt |-> status.tilt, zoom |-> status.zoom,
                    heat |-> local_decay]
  /\ UNCHANGED << det_pc, det_in, slept, outside, client, queues, curr_pose,
                  config, now, status, match_pc, match_locals, det_log,
                  pose_log, det_out, pose_out, matches >>

\* pose["timestamp"] = t = time.time(); self.curr_pose = pose; append.
AppendPose(t) ==
  /\ pose_pc = "append"
  /\ now' = t
  /\ LET stamped == [status EXCEPT !.timestamp = t]
     IN  /\ curr_pose' = stamped
         /\ cam_pose_queue' = DequeAppend(cam_pose_queue, stamped, PoseQueueMaxlen)
         /\ pose_log' = Append(pose_log, t)
         /\ pose_out' = pose_out \o
              [i \in 1 .. Len(Evicted(cam_pose_queue, PoseQueueMaxlen)) |->
                 [id |-> Evicted(cam_pose_queue, PoseQueueMaxlen)[i].id,
                  how |-> "evicted"]]
  /\ status' = NoPose
  /\ pose_pc' = "get_status"
  /\ UNCHANGED << det_pc, env, client, cam_detection_data_queue,
                  detection_pose_match_queue, heat_map, config, decay_read,
                  match_pc, match_locals, det_log, det_out, matches,
                  last_write >>

\* ----------------------------------------------- match_detection_and_pose
\* dt = pose["timestamp"] - detection["timestamp"] - self.frame_to_pose_latency
TimeDelta(p, d) == p.timestamp - d.timestamp - frame_to_pose_latency

\* Faulty variant: outside the window the detection is dropped, whatever
\* the sign.
BranchDiscardsDetection(dt) ==
  IF Abs(dt) <= min_dt THEN "popleft_detection" ELSE "discard_detection"
\* Faulty variant: outside the window the pose is dropped, whatever the sign.
BranchDiscardsPose(dt) ==
  IF Abs(dt) <= min_dt THEN "popleft_detection" ELSE "discard_pose"
\* The branch of lines 250-265 taken for dt.
Branch(dt) ==
  IF Abs(dt) <= min_dt THEN "popleft_detection"
  ELSE IF dt < -min_dt THEN "discard_pose"
  ELSE "discard_detection"

\* Faulty variant: only the detection queue is tested.
StarvedOfDetections == cam_detection_data_queue = << >>
\* The test of line 238: an input queue is empty.
Starved == cam_detection_data_queue = << >> \/ cam_pose_queue = << >>

\* An input queue is empty: sleep and retry.
MatcherSleep ==
  /\ match_pc = "loop"
  /\ Starved
  /\ slept' = TRUE
  /\ UNCHANGED << det_pc, decay_log, det_in, outside, client, queues,
                  curr_pose, heat_map, config, now, pose_locals, match_pc,
                  match_locals, history >>

\* Both queues hold something: detection = self.cam_detection_data_queue[0].
PeekDetection ==
  /\ match_pc = "loop"
  /\ ~Starved
  /\ detection' = PeekLeft(cam_detection_data_queue)
  /\ match_pc' = "peek_pose"
  /\ slept' = FALSE
  /\ UNCHANGED << det_pc, decay_log, det_in, outside, client, queues,
                  curr_pose, heat_map, config, now, pose_locals, pose,
                  detections, cam_pose, update_index, update_read, history >>

\* pose = self.cam_pose_queue[0]; dt is computed and decides the branch.
PeekPose ==
  /\ match_pc = "peek_pose"
  /\ pose' = PeekLeft(cam_pose_queue)
  /\ match_pc' = Branch(TimeDelta(PeekLeft(cam_pose_queue), detection))
  /\ UNCHANGED << det_pc, env, client, queues, curr_pose, heat_map, config,
                  now, pose_locals, detection, detections, cam_pose,
                  update_index, update_read, history >>

\* detections = self.cam_detection_data_queue.popleft()
PopLeftDetection ==
  /\ match_pc = "popleft_detection"
  /\ detections' = PeekLeft(cam_detection_data_queue)
  /\ cam_detection_data_queue' = PopLeft(cam_detection_data_queue)
  /\ det_out' = Append(det_out, [id |-> PeekLeft(cam_detection_data_queue).id,
                                 how |-> "matched"])
  /\ match_pc' = "popleft_pose"
  /\ UNCHANGED << det_pc, env, client, cam_pose_queue,
                  detection_pose_match_queue, curr_pose, heat_map, config, now,
                  pose_locals, detection, pose, cam_pose, update_index,
                  update_read, det_log, pose_log, pose_out, matches,
                  last_write >>

\* add_poses_to_detections raises: KeyError without "bboxes", or convert
\* raises for one of the boxes.
AddPosesRaises(d, p) ==
  \/ "bboxes" \notin d.keys
  \/ \E i \in 1 .. Len(d.bboxes) : ConvertRaises(d.bboxes[i], p)

\* Faulty variant: each pass of the loop overwrites the list, so only the
\* pose of the last bbox is left.
add_poses_keeps_last(d, p) ==
  [d EXCEPT !.keys = @ \cup {"poses"},
            !.poses = IF d.bboxes = << >> THEN << >>
                      ELSE << convert(d.bboxes[Len(d.bboxes)], p) >>]
\* Faulty variant: the record also takes the timestamp of the pose.
add_poses_restamps(d, p) ==
  [d EXCEPT !.keys = @ \cup {"poses"},
            !.timestamp = p.timestamp,
            !.poses = [i \in 1 .. Len(d.bboxes) |-> convert(d.bboxes[i], p)]]
\* The dict add_poses_to_detections leaves when it returns.
add_poses_to_detections(d, p) ==
  [d EXCEPT !.keys = @ \cup {"poses"},
            !.poses = [i \in 1 .. Len(d.bboxes) |-> convert(d.bboxes[i], p)]]

\* cam_pose = self.cam_pose_queue.popleft(), then
\* self.add_poses_to_detections(detections, cam_pose), which works on the
\* two popped dicts only.  An exception ends the thread.
PopLeftPose ==
  /\ match_pc = "popleft_pose"
  /\ cam_pose' = PeekLeft(cam_pose_queue)
  /\ cam_pose_queue' = PopLeft(cam_pose_queue)
  /\ pose_out' = Append(pose_out, [id |-> PeekLeft(cam_pose_queue).id, how |-> "matched"])
  /\ IF AddPosesRaises(detections, PeekLeft(cam_pose_queue))
     THEN /\ match_pc' = "dead"
          /\ detections' = [detections EXCEPT !.keys = @ \cup {"poses"}]
          /\ UNCHANGED update_index
     ELSE /\ match_pc' = "update"
          /\ detections' = add_poses_to_detections(detections, PeekLeft(cam_pose_queue))
          /\ update_index' = 1
  /\ UNCHANGED << det_pc, env, client, cam_detection_data_queue,
                  detection_pose_match_queue, curr_pose, heat_map, config, now,
                  pose_locals, detection, pose, update_read, det_log, pose_log,
                  det_out, matches, last_write >>

\* Number of passes of the loop of update(): zip stops at the shorter list.
UpdateCount(d) == Min(Len(d.poses), Len(d.scores))

\* One pass of the loop of update(): add_gaussian_heat reads self.heatmap.
UpdateRead ==
  /\ match_pc = "update"
  /\ "scores" \in detections.keys
  /\ update_index <= UpdateCount(detections)
  /\ update_read' = heat_map
  /\ match_pc' = "update_write"
  /\ UNCHANGED << det_pc, env, client, queues, curr_pose, heat_map, config,
                  now, pose_locals, detection, pose, detections, cam_pose,
                  update_index, history >>

\* add_gaussian_heat assigns self.heatmap.
UpdateWrite ==
  /\ match_pc = "update_write"
  /\ heat_map' = UpdateOne(update_read, detections.poses[update_index],
                           detections.scores[update_index])
  /\ update_read' = ZeroGrid
  /\ added' = added \cup {detections.scores[update_index]}
  /\ update_index' = update_index + 1
  /\ match_pc' = "update"
  /\ last_write' = [by |-> "update", read |-> update_read,
                    pan |-> detections.poses[update_index].pan,
                    tilt |-> detections.poses[update_index].tilt,
                    zoom |-> detections.poses[update_index].zoom,
                    heat |-> detections.scores[update_index]]
  /\ UNCHANGED << det_pc, env, reader, heat_calls, queues, curr_pose, config,
                  now, pose_locals, detection, pose, detections, cam_pose,
                  det_log, pose_log, det_out, pose_out, matches >>

\* update() has returned: self.detection_pose_match_queue.append(detections).
\* The locals are dead from here on and are cleared.
AppendMatch ==
  /\ match_pc = "update"
  /\ "scores" \in detections.keys
  /\ update_index > UpdateCount(detections)
  /\ detection_pose_match_queue' =
       DequeAppend(detection_pose_match_queue, detections, MatchQueueMaxlen)
  /\ matches' = Append(matches, [detection |-> detections.id, pose |-> cam_pose.id])
  /\ match_pc' = IF write_detections THEN "write" ELSE "loop"
  /\ detection' = NoDetection
  /\ pose' = NoPose
  /\ detections' = NoDetection
  /\ cam_pose' = NoPose
  /\ update_index' = 0
  /\ UNCHANGED << det_pc, env, client, cam_detection_data_queue,
                  cam_pose_queue, curr_pose, heat_map, config, now,
                  pose_locals, update_read, det_log, pose_log, det_out,
                  pose_out, last_write >>

\* elif dt < -self.min_dt: self.cam_pose_queue.popleft()
DiscardPose ==
  /\ match_pc = "discard_pose"
  /\ cam_pose_queue' = PopLeft(cam_pose_queue)
  /\ pose_out' = Append(pose_out, [id |-> PeekLeft(cam_pose_queue).id, how |-> "discarded"])
  /\ match_pc' = "loop"
  /\ detection' = NoDetection
  /\ pose' = NoPose
  /\ UNCHANGED << det_pc, env, client, cam_detection_data_queue,
                  detection_pose_match_queue, curr_pose, heat_map, config, now,
                  pose_locals, detections, cam_pose, update_index, update_read,
                  det_log, pose_log, det_out, matches, last_write >>

\* else: self.cam_detection_data_queue.popleft()
DiscardDetection ==
  /\ match_pc = "discard_detection"
  /\ cam_detection_data_queue' = PopLeft(cam_detection_data_queue)
  /\ det_out' = Append(det_out, [id |-> PeekLeft(cam_detection_data_queue).id,
                                 how |-> "discarded"])
  /\ match_pc' = "loop"
  /\ detection' = NoDetection
  /\ pose' = NoPose
  /\ UNCHANGED << det_pc, env, client, cam_pose_queue,
                  detection_pose_match_queue, curr_pose, heat_map, config, now,
                  pose_locals, detections, cam_pose, update_index, update_read,
                  det_log, pose_log, pose_out, matches, last_write >>

\* ---------------------------------------------------------- specification
\* The values time.time() can return: the clock never runs backwards.
ClockValues == now .. MaxTime

DetectionCollector ==
  \E d \in Datagrams :
    \E t \in (IF "timestamp" \in d.keys THEN {now} ELSE ClockValues) :
      CollectDetectionData(d, t)
PoseCollector ==
  \/ \E s \in CameraStatuses : GetStatus(s)
  \/ DecayWrite
  \/ \E t \in ClockValues : AppendPose(t)
Matcher ==
  \/ MatcherSleep
  \/ PeekDetection
  \/ PeekPose
  \/ PopLeftDetection
  \/ PopLeftPose
  \/ UpdateRead
  \/ UpdateWrite
  \/ AppendMatch
  \/ DiscardPose
  \/ DiscardDetection

Next == DetectionCollector \/ PoseCollector \/ Matcher

Spec == Init /\ [][Next]_vars

\* The matcher thread is a daemon thread of its own: whenever it can take a
\* step of its loop, the scheduler eventually lets it.  The collectors wait
\* for datagrams and for the camera, so nothing is assumed of them.
SpecLive == Init /\ [][Next]_vars /\ WF_vars(Matcher)

\* ---------------------------------------------------------- persistence
\* Faulty variant: the poses are left out of the dump.
JsonDumpWithoutPoses(d) == [k \in d.keys \ {"poses"} |-> d[k]]
\* json.dumps of one matched detection: the dict's keys with their values.
JsonDumpEntry(d) == [k \in d.keys |-> d[k]]
\* json.dumps(list(self.detection_pose_match_queue)): the list of the dumped
\* entries, oldest first.
JsonDump(q) == [i \in 1 .. Len(q) |-> JsonDumpEntry(q[i])]

\* if self.write_detections: self.write_detection_pose_pairs(): the file is
\* opened with "w" and holds the dump when the step ends.
WriteDetectionPosePairs ==
  /\ match_pc = "write"
  /\ file' = [written |-> TRUE, content |-> JsonDump(detection_pose_match_queue)]
  /\ match_pc' = "loop"
  /\ UNCHANGED << det_pc, collected, write_detections, ctor, callers, client,
                  queues, curr_pose, heat_map, config, now, pose_locals,
                  match_locals, history >>

\* Construction with write_detections False or True, and the narrowest of
\* the matching windows (the one that gives matches and discards).
InitPersist ==
  /\ Fields
  /\ Started
  /\ \A m \in MinDtValues : min_dt <= m
  /\ write_detections \in BOOLEAN

NextPersist == Next \/ WriteDetectionPosePairs

\* The three threads of a matcher constructed with or without persistence.
SpecPersist == InitPersist /\ [][NextPersist]_vars

\* --------------------------------------------------------- construction
\* Faulty variant: a matcher that goes on without its socket.
AfterBindDegraded(bound) == "start_detection"
\* network.create_udp_socket raises OSError when bind fails; __init__ does
\* not catch it, so nothing after line 202 runs.
AfterBind(bound) == IF bound THEN "start_detection" ELSE "failed"

\* self.sock = network.create_udp_socket(frame_data_port, '127.0.0.1'), and
\* the assignments of lines 203-208 when it returns.
CreateUdpSocket(bound) ==
  /\ ctor_pc = "bind"
  /\ sock' = IF bound THEN "bound" ELSE "error"
  /\ ctor_pc' = AfterBind(bound)
  /\ UNCHANGED << det_pc, collected, write_detections, file, callers, client,
                  queues, curr_pose, heat_map, config, now, pose_locals,
                  match_pc, match_locals, history >>

\* threading.Thread(target=self.collect_detection_data, daemon=True).start()
StartDetectionCollector ==
  /\ ctor_pc = "start_detection"
  /\ det_pc' = "run"
  /\ ctor_pc' = "start_poses"
  /\ UNCHANGED << sock, collected, write_detections, file, callers, client,
                  queues, curr_pose, heat_map, config, now, pose_locals,
                  match_pc, match_locals, history >>

\* threading.Thread(target=self.collect_camera_poses, daemon=True).start()
StartPoseCollector ==
  /\ ctor_pc = "start_poses"
  /\ pose_pc' = "get_status"
  /\ ctor_pc' = "start_matcher"
  /\ UNCHANGED << det_pc, sock, collected, write_detections, file, callers,
                  client, queues, curr_pose, heat_map, config, now, status,
                  decay_read, match_pc, match_locals, history >>

\* threading.Thread(target=self.match_detection_and_pose, daemon=True).start()
StartMatcher ==
  /\ ctor_pc = "start_matcher"
  /\ match_pc' = "loop"
  /\ ctor_pc' = "done"
  /\ UNCHANGED << det_pc, sock, collected, write_detections, file, callers,
                  client, queues, curr_pose, heat_map, config, now,
                  pose_locals, match_locals, history >>

\* __init__ is about to create the socket: no thread exists.
InitConstruct ==
  /\ Fields
  /\ sock = "none"
  /\ det_pc = "unstarted"
  /\ pose_pc = "unstarted"
  /\ match_pc = "unstarted"
  /\ ctor_pc = "bind"
  /\ write_detections = FALSE
  /\ call = NoCall
  /\ alarm = NoAlarm

Construct ==
  \/ \E bound \in BOOLEAN : CreateUdpSocket(bound)
  \/ StartDetectionCollector
  \/ StartPoseCollector
  \/ StartMatcher

NextConstruct == Construct \/ Next

\* The constructor, and the threads it starts.
SpecConstruct == InitConstruct /\ [][NextConstruct]_vars

\* ------------------------------------------------------------ the dialog
\* update_pose_label reads curr_pose and the length of the match queue.
UpdatePoseLabel ==
  /\ ui' = [ui EXCEPT !.op = "update_pose_label", !.zoom = curr_pose.zoom]
  /\ UNCHANGED << det_pc, collected, write_detections, file, ctor, call, alarm,
                  client, queues, curr_pose, heat_map, config, now,
                  pose_locals, match_pc, match_locals, history >>

\* update_plot: update_pose_label, get_pan_tilt_heat_map (which reads the
\* grid), reads of curr_pose and a copy of the match queue.
UpdatePlot ==
  /\ ui' = [ui EXCEPT !.op = "update_plot", !.zoom = curr_pose.zoom]
  /\ UNCHANGED << det_pc, collected, write_detections, file, ctor, call, alarm,
                  client, queues, curr_pose, heat_map, config, now,
                  pose_locals, match_pc, match_locals, history >>

\* on_canvas_click: camera.move_absolute(pan, tilt, curr_pose.get("zoom", 0)).
OnCanvasClick ==
  /\ ui' = [ui EXCEPT !.op = "on_canvas_click", !.zoom = curr_pose.zoom]
  /\ UNCHANGED << det_pc, collected, write_detections, file, ctor, call, alarm,
                  client, queues, curr_pose, heat_map, config, now,
                  pose_locals, match_pc, match_locals, history >>

\* pose["zoom"] += delta_zoom on a reference to the dict p: every reference
\* to the dict that curr_pose refers to sees the new zoom.
ZoomChanged(p, delta_zoom) ==
  IF p.id = curr_pose.id THEN [p EXCEPT !.zoom = @ + delta_zoom] ELSE p

\* change_zoom(delta_zoom): pose = matcher.curr_pose; returns when the dict
\* has no zoom (the {} of line 205); otherwise pose["zoom"] += delta_zoom and
\* camera.move_absolute.  The dict is the one the pose collector appended to
\* the pose queue (lines 233-234) and the matcher may hold in `pose` and
\* `cam_pose`.
ChangeZoom(delta_zoom) ==
  /\ ui.clicks < MaxZoomClicks
  /\ IF curr_pose.id = 0
     THEN /\ ui' = [ui EXCEPT !.op = "change_zoom", !.clicks = @ + 1]
          /\ UNCHANGED << curr_pose, cam_pose_queue, pose, cam_pose >>
     ELSE /\ ui' = [op |-> "change_zoom", zoom |-> curr_pose.zoom + delta_zoom,
                    clicks |-> ui.clicks + 1]
          /\ curr_pose' = ZoomChanged(curr_pose, delta_zoom)
          /\ cam_pose_queue' =
               [i \in 1 .. Len(cam_pose_queue) |->
                  ZoomChanged(cam_pose_queue[i], delta_zoom)]
          /\ pose' = ZoomChanged(pose, delta_zoom)
          /\ cam_pose' = ZoomChanged(cam_pose, delta_zoom)
  /\ UNCHANGED << det_pc, collected, write_detections, file, ctor, call, alarm,
                  client, cam_detection_data_queue, detection_pose_match_queue,
                  heat_map, config, now, pose_locals, match_pc, detection,
                  detections, update_index, update_read, history >>

Dialog ==
  \/ UpdatePoseLabel
  \/ UpdatePlot
  \/ OnCanvasClick
  \/ \E delta_zoom \in {zoom_step, -zoom_step} : ChangeZoom(delta_zoom)

NextUi == Next \/ Dialog

\* The three threads and the dialog's callbacks on the Tk thread.
SpecUi == Init /\ [][NextUi]_vars

\* -------------------------------------------------------------- the alarm
\* config.ALARM_TRIGGERS, two of its entries: class id to threshold, in
\* thousandths.
alarm_triggers == (0 :> 0) @@ (2 :> 800)
\* Cooldowns in seconds.
CoolDowns == {1, 2}
\* Detections (class_id, score) of a frame: class 1 has no trigger, class 2
\* is below, at and above its threshold.
AlarmDetections == { << 0, 300 >>, << 1, 900 >>, << 2, 799 >>, << 2, 800 >> }
AlarmFrames ==
  { << >> } \cup { << d >> : d \in AlarmDetections }
    \cup { << d, e >> : d \in AlarmDetections, e \in AlarmDetections }

check_alarm(class_id, score) ==
  /\ class_id \in DOMAIN alarm_triggers
  /\ ~(score < alarm_triggers[class_id])

\* The test of line 49 at clock value t.
InCoolDownTest(t) == alarm.alarm_cool_down_s > t - alarm.last_alarm_s

\* alarm(detection_frame): the loop reads the clock at t, line 53 at t2.
AlarmCall(frame, t, t2) ==
  LET hits == { i \in 1 .. Len(frame) : check_alarm(frame[i][1], frame[i][2]) }
      sound == hits # {} /\ InCoolDownTest(t)
  IN  /\ alarm' =
           [alarm EXCEPT
              !.clock = IF sound THEN t2 ELSE t,
              !.calls = 1 - @,
              !.met = hits # {},
              !.elapsed = t - alarm.last_alarm_s,
              !.alert = sound,
              !.last_alarm_s = IF sound THEN t2 ELSE @,
              !.last_alert = IF sound THEN t2 ELSE @,
              !.alarm_detections =
                 SelectSeq(frame, LAMBDA d : check_alarm(d[1], d[2]))]
      /\ UNCHANGED << det_pc, collected, write_detections, file, ctor, ui,
                      call, client, queues, curr_pose, heat_map, config, now,
                      pose_locals, match_pc, match_locals, history >>

\* The main loop of stream_camera.py calls the alarm once per frame.
NextAlarm ==
  \E frame \in AlarmFrames, t \in alarm.clock .. MaxAlarmTime :
    \E t2 \in t .. Min(t + 1, MaxAlarmTime) : AlarmCall(frame, t, t2)

\* Alarm(alarm_cool_down_s=...) constructed at time 0.
InitAlarm ==
  /\ Fields
  /\ sock = "bound"
  /\ det_pc = "run"
  /\ pose_pc = "get_status"
  /\ match_pc = "loop"
  /\ ctor_pc = "done"
  /\ write_detections = FALSE
  /\ call = NoCall
  /\ \E s \in CoolDowns : alarm = [NoAlarm EXCEPT !.alarm_cool_down_s = s]

SpecAlarm == InitAlarm /\ [][NextAlarm]_vars

\* ------------------------------------------------- the pure functions
\* Pan angles: negative, in [0, 360), 360 and beyond.
CallPans == {-370, -360, -1, 0, 1, 119, 120, 179, 180, 181, 359, 360, 361, 720}
\* Tilt angles: in [-90, 90], the two ends, and beyond them.
CallTilts == {-180, -91, -90, -89, -1, 0, 89, 90, 91, 180}
\* Zooms in tenths: 0, 0.1, 10, max_zoom, and a negative one.
CallZooms == {0, 1, 100, 10 * max_zoom, -100}
\* Normal boxes narrower than the image.
NormalBoxes ==
  { << 50, 50, 100, 150 >>, CenterBox, << 0, 270, 480, 810 >>,
    << 0, 0, img_width - 1, img_height >>, << 0, 0, 1, 1 >> }
\* The box with its x corners exchanged.
Reversed(bbox) == << bbox[3], bbox[2], bbox[1], bbox[4] >>
\* Normal boxes, the same boxes reversed, boxes of no width and boxes as
\* wide as the image.
CallBoxes ==
  NormalBoxes \cup { Reversed(b) : b \in NormalBoxes }
    \cup { << 100, 50, 100, 150 >>, << 0, 0, 0, 0 >>,
           << 0, 0, img_width, img_height >>,
           << img_width, 0, 0, img_height >> }

\* The camera pose of a call.
CallPose(a) == [pan |-> a.pan, tilt |-> a.tilt, zoom |-> a.zoom]

\* A caller holds a pan, a tilt, a zoom and a box.
InitCalls ==
  /\ Fields
  /\ sock = "bound"
  /\ det_pc = "run"
  /\ pose_pc = "get_status"
  /\ match_pc = "loop"
  /\ ctor_pc = "done"
  /\ write_detections = FALSE
  /\ alarm = NoAlarm
  /\ \E pan \in CallPans, tilt \in CallTilts, zoom \in CallZooms,
        bbox \in CallBoxes :
       call = [fn |-> "none",
               args |-> [pan |-> pan, tilt |-> tilt, zoom |-> zoom,
                         bbox |-> bbox],
               result |-> << >>]

\* heat_map.pan_tilt_to_bin(pan, tilt)
CallPanTiltToBin ==
  /\ call.fn = "none"
  /\ call' = [call EXCEPT !.fn = "pan_tilt_to_bin",
                          !.result = pan_tilt_to_bin(call.args.pan,
                                                     call.args.tilt)]
  /\ UNCHANGED << det_pc, collected, write_detections, file, ctor, ui, alarm,
                  client, queues, curr_pose, heat_map, config, now,
                  pose_locals, match_pc, match_locals, history >>

\* heat_map.bin_to_pan_tilt(p_idx, t_idx) on the indices just returned.
CallBinToPanTilt ==
  /\ call.fn = "pan_tilt_to_bin"
  /\ call' = [call EXCEPT !.fn = "bin_to_pan_tilt",
                          !.result = bin_to_pan_tilt(call.result[1],
                                                     call.result[2])]
  /\ UNCHANGED << det_pc, collected, write_detections, file, ctor, ui, alarm,
                  client, queues, curr_pose, heat_map, config, now,
                  pose_locals, match_pc, match_locals, history >>

\* converter.convert(bbox, cam_pose): the dict it returns, or the exception.
CallConvert ==
  /\ call.fn = "none"
  /\ call' = [call EXCEPT
                !.fn = IF ConvertRaises(call.args.bbox, CallPose(call.args))
                       THEN "convert_raised" ELSE "convert",
                !.result = IF ConvertRaises(call.args.bbox, CallPose(call.args))
                           THEN << >>
                           ELSE convert(call.args.bbox, CallPose(call.args))]
  /\ UNCHANGED << det_pc, collected, write_detections, file, ctor, ui, alarm,
                  client, queues, curr_pose, heat_map, config, now,
                  pose_locals, match_pc, match_locals, history >>

NextCalls == CallPanTiltToBin \/ CallBinToPanTilt \/ CallConvert

\* Direct calls of pan_tilt_to_bin, bin_to_pan_tilt and convert.
SpecCalls == InitCalls /\ [][NextCalls]_vars

\* ------------------------------------------------ the matcher on its own
\* A box in the left quarter of the image.
LeftBox == << 0, img_height \div 4, img_width \div 4, (3 * img_height) \div 4 >>

\* Detection events with no, one and two boxes (scores 0.9 and 0.3).
DetectionShapes ==
  { [keys |-> {"bboxes", "scores", "timestamp"}, timestamp |-> t,
     bboxes |-> b[1], scores |-> b[2]] :
    t \in FrameTimes,
    b \in { << << >>, << >> >>,
            << << CenterBox >>, << 900 >> >>,
            << << CenterBox, LeftBox >>, << 300, 900 >> >> } }

\* Camera poses: pan 0 or 180 degrees, zoom 0, 10.0 or max_zoom.
PoseShapes ==
  { [pan |-> a, tilt |-> 0, zoom |-> z] :
    a \in {0, 180}, z \in {0, 100, 10 * max_zoom} }

\* The state after one detection and one pose have been collected (the
\* decay of the zero grid leaves the zero grid) and before the matcher has
\* run.
InitMatch ==
  /\ \E d \in DetectionShapes, p \in PoseShapes, t \in 0 .. MaxTime :
       /\ cam_detection_data_queue =
            << [id |-> 1, keys |-> d.keys, timestamp |-> d.timestamp,
                bboxes |-> d.bboxes, scores |-> d.scores, poses |-> << >>] >>
       /\ cam_pose_queue =
            << [id |-> 1, pan |-> p.pan, tilt |-> p.tilt, zoom |-> p.zoom,
                timestamp |-> t] >>
       /\ curr_pose = [id |-> 1, pan |-> p.pan, tilt |-> p.tilt, zoom |-> p.zoom,
                       timestamp |-> t]
       /\ det_log = << d.timestamp >>
       /\ pose_log = << t >>
       /\ now = t
       /\ last_write = [by |-> "decay", read |-> ZeroGrid, pan |-> p.pan,
                        tilt |-> p.tilt, zoom |-> p.zoom, heat |-> local_decay]
       /\ det_in = d
       /\ slept = FALSE
  /\ detection_pose_match_queue = << >>
  /\ heat_map = ZeroGrid
  /\ min_dt \in MinDtValues
  /\ frame_to_pose_latency \in LatencyValues
  /\ pose_pc = "get_status"
  /\ status = NoPose
  /\ decay_read = ZeroGrid
  /\ match_pc = "loop"
  /\ detection = NoDetection
  /\ pose = NoPose
  /\ detections = NoDetection
  /\ cam_pose = NoPose
  /\ update_index = 0
  /\ update_read = ZeroGrid
  /\ det_out = << >>
  /\ pose_out = << >>
  /\ matches = << >>
  /\ det_pc = "run"
  /\ read_pc = "idle"
  /\ read_index = 0
  /\ read_heat = 0
  /\ pan_tilt_map = {}
  /\ read_grids = {}
  /\ read_tested = {}
  /\ heat_calls = 0
  /\ added = {}
  /\ decay_log = << 1 >>
  /\ ui = NoUi
  /\ call = NoCall
  /\ alarm = NoAlarm
  /\ ctor_pc = "done"
  /\ sock = "bound"
  /\ write_detections = FALSE
  /\ file = NoFile

\* The matcher thread alone, on one collected detection and one collected
\* pose.
SpecMatch == InitMatch /\ [][Matcher]_vars

\* ------------------------------------------------ the heatmap on its own
\* The cell the k-th pass of the nested loops of get_pan_tilt_heat_map is at.
CellOf(k) == << k \div tilt_bins, k % tilt_bins >>
NumCells == pan_bins * tilt_bins

\* get_pan_tilt_heat_map is called: pan_tilt_map = {}.
ReadStart ==
  /\ read_pc \in {"idle", "done"}
  /\ read_pc' = "test"
  /\ read_index' = 0
  /\ read_heat' = 0
  /\ pan_tilt_map' = {}
  /\ read_grids' = {}
  /\ read_tested' = {}
  /\ UNCHANGED << det_pc, env, heat_calls, added, queues, curr_pose, heat_map,
                  config, now, pose_locals, match_pc, match_locals, history >>

\* heat = self.get_norm_heatval(p_idx, t_idx), a read of self.heatmap, and
\* the threshold test.
ReadTest ==
  /\ read_pc = "test"
  /\ read_index < NumCells
  /\ LET b == CellOf(read_index)
         heat == get_norm_heatval(heat_map, b[1], b[2])
     IN  /\ read_heat' = heat
         /\ read_grids' = read_grids \cup {heat_map}
         /\ IF BelowThreshold(heat)
            THEN /\ read_index' = read_index + 1
                 /\ read_pc' = "test"
                 /\ UNCHANGED read_tested
            ELSE /\ read_pc' = "store"
                 /\ read_tested' =
                      read_tested \cup {<< bin_to_pan_tilt(b[1], b[2]), heat >>}
                 /\ UNCHANGED read_index
  /\ UNCHANGED << det_pc, env, heat_calls, added, pan_tilt_map, queues,
                  curr_pose, heat_map, config, now, pose_locals, match_pc,
                  match_locals, history >>

\* pan_tilt_map[(pan, tilt)] = np.clip(self.heatmap[p_idx, t_idx], 0, 1):
\* a second read of self.heatmap.
ReadStore ==
  /\ read_pc = "store"
  /\ LET b == CellOf(read_index)
         key == bin_to_pan_tilt(b[1], b[2])
     IN  pan_tilt_map' =
           { e \in pan_tilt_map : e[1] # key }
             \cup {<< key, Clip(heat_map[b], 0, Milli) >>}
  /\ read_grids' = read_grids \cup {heat_map}
  /\ read_index' = read_index + 1
  /\ read_pc' = "test"
  /\ UNCHANGED << det_pc, env, heat_calls, added, read_heat, read_tested,
                  queues, curr_pose, heat_map, config, now, pose_locals,
                  match_pc, match_locals, history >>

\* Both loops are through: return pan_tilt_map.
ReadReturn ==
  /\ read_pc = "test"
  /\ read_index = NumCells
  /\ read_pc' = "done"
  /\ UNCHANGED << det_pc, env, heat_calls, added, read_index, read_heat,
                  pan_tilt_map, read_grids, read_tested, queues, curr_pose,
                  heat_map, config, now, pose_locals, match_pc, match_locals,
                  history >>

\* The heat arguments of a call: -1.0, 0.01 and 2.0.
HeatValues == {-Milli, HeatThreshold, 2 * Milli}
\* The places and widths of a call: pan 0 or 180 degrees at zoom 10.0, and
\* pan 0 at max_zoom (sigma 0).
HeatPoses ==
  { [pan |-> 0, tilt |-> 0, zoom |-> 100],
    [pan |-> 180, tilt |-> 0, zoom |-> 100],
    [pan |-> 0, tilt |-> 0, zoom |-> 10 * max_zoom] }

\* A call of add_gaussian_heat(pan, tilt, sigma_x, sigma_y, heat), as
\* update() makes it for a pose and a score.
HeatAdd(p, heat) ==
  /\ heat_calls < MaxHeatCalls
  /\ heat_calls' = heat_calls + 1
  /\ heat_map' = UpdateOne(heat_map, p, heat)
  /\ added' = added \cup {heat}
  /\ last_write' = [by |-> "add", read |-> heat_map, pan |-> p.pan,
                    tilt |-> p.tilt, zoom |-> p.zoom, heat |-> heat]
  /\ UNCHANGED << det_pc, env, reader, queues, curr_pose, config, now,
                  pose_locals, match_pc, match_locals, det_log, pose_log,
                  det_out, pose_out, matches >>

\* A call of subtract_gaussian_heat(pan, tilt, sigma_x, sigma_y, heat).
HeatSubtract(p, heat) ==
  /\ heat_calls < MaxHeatCalls
  /\ heat_calls' = heat_calls + 1
  /\ LET sigma == zoom_to_sigma(p.zoom)
     IN  heat_map' = subtract_gaussian_heat(heat_map, p.pan, p.tilt,
                                            sigma[1], sigma[2], heat)
  /\ last_write' = [by |-> "subtract", read |-> heat_map, pan |-> p.pan,
                    tilt |-> p.tilt, zoom |-> p.zoom, heat |-> heat]
  /\ UNCHANGED << det_pc, env, reader, added, queues, curr_pose, config, now,
                  pose_locals, match_pc, match_locals, det_log, pose_log,
                  det_out, pose_out, matches >>

\* A call of decay_heatmap(camera_pose), as the pose collector makes it.
HeatDecay(p) ==
  /\ heat_calls < MaxHeatCalls
  /\ heat_calls' = heat_calls + 1
  /\ heat_map' = decay_heatmap(heat_map, p)
  /\ last_write' = [by |-> "decay", read |-> heat_map, pan |-> p.pan,
                    tilt |-> p.tilt, zoom |-> p.zoom, heat |-> local_decay]
  /\ UNCHANGED << det_pc, env, reader, added, queues, curr_pose, config, now,
                  pose_locals, match_pc, match_locals, det_log, pose_log,
                  det_out, pose_out, matches >>

\* The thread that draws the plot, reading the grid cell by cell.
HeatReader == ReadStart \/ ReadTest \/ ReadStore \/ ReadReturn
\* The threads that assign the grid; each assignment is one step.
HeatWriter ==
  \/ \E p \in HeatPoses, heat \in HeatValues : HeatAdd(p, heat)
  \/ \E p \in HeatPoses, heat \in HeatValues : HeatSubtract(p, heat)
  \/ \E p \in HeatPoses : HeatDecay(p)

NextHeat == HeatReader \/ HeatWriter

\* A DynamicHeatmap, its mutating methods called in any order, and a reader
\* running beside them.
SpecHeat == Init /\ [][NextHeat]_vars

\* The calls the program makes on its heatmap: update's add_gaussian_heat
\* and decay_heatmap.
NextHeatUse ==
  \/ \E p \in HeatPoses, heat \in HeatValues : HeatAdd(p, heat)
  \/ \E p \in HeatPoses : HeatDecay(p)

\* A DynamicHeatmap used as the matcher and the pose collector use it, one
\* call after the other.
SpecHeatUse == Init /\ [][NextHeatUse]_vars

\* ------------------------------------------------- inputs that are not
\* ------------------------------------------------- well-formed detections
\* What a datagram can be when it is not a non-empty JSON object: nothing
\* received in time, bytes that are not JSON, bytes that are not UTF-8, a
\* falsy JSON value ({}, [], 0, "", null, false), or a non-empty list, a
\* number, a string or true.
DatagramKinds == {"timeout", "bad_json", "bad_utf8", "falsy", "non_object"}

\* get_json_and_address catches socket.timeout / BlockingIOError and
\* json.JSONDecodeError only: data.decode('utf8') raising UnicodeDecodeError
\* goes through.
GetJsonRaises(kind) == kind = "bad_utf8"
\* get_json_and_address returns (None, None).
GetJsonReturnsNone(kind) == kind \in {"timeout", "bad_json"}
\* `if not data` is taken for None and for a falsy value.
NotData(kind) == GetJsonReturnsNone(kind) \/ kind = "falsy"
\* `"timestamp" not in data` followed by data["timestamp"] = time.time()
\* raises TypeError when data is a list, a number, a string or true.
StampRaises(kind) == kind = "non_object"

\* One pass of the loop of collect_detection_data with such a datagram: the
\* pass either sleeps and continues, or an exception ends the thread.
ReceiveOther(kind) ==
  /\ det_pc = "run"
  /\ Len(det_log) < MaxDetections
  /\ det_pc' = IF GetJsonRaises(kind) \/ (~NotData(kind) /\ StampRaises(kind))
                THEN "dead" ELSE "run"
  /\ UNCHANGED << env, client, queues, curr_pose, heat_map, config, now,
                  pose_locals, match_pc, match_locals, history >>

\* JSON objects a sender can put in a datagram that lack a key the matcher
\* uses, or the timestamp.
OtherDatagrams ==
  { [keys |-> {"bboxes", "scores", "timestamp"} \ {k}, timestamp |-> t,
     bboxes |-> IF k = "bboxes" THEN << >> ELSE << CenterBox >>,
     scores |-> IF k = "scores" THEN << >> ELSE << 900 >>] :
    k \in {"bboxes", "scores", "timestamp"}, t \in FrameTimes }

\* The outcomes of a poll that yields no pose: get_status raises (tenacity
\* gives up after three attempts and raises), or the camera object returns
\* an empty dict.
PollFailures == {"raises", "empty"}
\* decay_heatmap(pose) runs before `if not pose`: camera_pose["zoom"] raises
\* KeyError on an empty dict.
DecayRaises(outcome) == outcome = "empty"

\* One pass of the loop of collect_camera_poses with such a poll: nothing in
\* the loop catches, so either exception ends the thread.
PollFails(outcome) ==
  /\ pose_pc = "get_status"
  /\ Len(pose_log) < MaxPoses
  /\ pose_pc' = IF outcome = "raises" \/ DecayRaises(outcome)
                 THEN "dead" ELSE "get_status"
  /\ UNCHANGED << det_pc, env, client, queues, curr_pose, heat_map, config,
                  now, status, decay_read, match_pc, match_locals, history >>

\* self.heat_map.update(detections): detections["scores"] raises KeyError
\* before the loop starts; the exception ends the matcher thread.
UpdateRaises ==
  /\ match_pc = "update"
  /\ "scores" \notin detections.keys
  /\ match_pc' = "dead"
  /\ UNCHANGED << det_pc, env, client, queues, curr_pose, heat_map, config,
                  now, pose_locals, match_locals, history >>

Faults ==
  \/ \E kind \in DatagramKinds : ReceiveOther(kind)
  \/ \E d \in OtherDatagrams :
       \E t \in (IF "timestamp" \in d.keys THEN {now} ELSE ClockValues) :
         CollectDetectionData(d, t)
  \/ \E outcome \in PollFailures : PollFails(outcome)
  \/ UpdateRaises

\* The program with every input its sockets and its camera can deliver.
NextFaults == Next \/ Faults

SpecFaults == Init /\ [][NextFaults]_vars

\* ------------------------------------------- the detection collector on
\* ------------------------------------------- its own
\* collect_detection_data with every datagram its socket can deliver; the
\* other threads never write the timestamp of a queued detection.
NextCollect ==
  \/ \E d \in Datagrams \cup OtherDatagrams :
       \E t \in (IF "timestamp" \in d.keys THEN {now} ELSE ClockValues) :
         CollectDetectionData(d, t)
  \/ \E kind \in DatagramKinds : ReceiveOther(kind)

SpecCollect == Init /\ [][NextCollect]_vars

\* ------------------------------------------------------------- properties
Ids(q) == [i \in 1 .. Len(q) |-> q[i].id]
Increasing(ids) == \A i, j \in 1 .. Len(ids) : i < j => ids[i] < ids[j]
NonDecreasing(ts) == \A i, j \in 1 .. Len(ts) : i < j => ts[i] <= ts[j]
Distinct(ids) == \A i, j \in 1 .. Len(ids) : i # j => ids[i] # ids[j]
\* The k-th detection and the j-th pose enqueued lie in the matching window.
InWindow(k, j) == Abs(pose_log[j] - det_log[k] - frame_to_pose_latency) <= min_dt
\* The entries of an out-history that left in the way `how`.
Left(out, how) == { i \in 1 .. Len(out) : out[i].how = how }
\* The matcher has popped the detection with this id and is on its way to
\* the append of line 255.
Underway(id) ==
  /\ match_pc \in {"popleft_pose", "update", "update_write"}
  /\ detections.id = id

\* C1: every detection appended to the match queue was paired with a pose
\* whose timestamp, less the detection's and the latency, is within min_dt.
C1_MatchedWithinWindow ==
  \A k \in 1 .. Len(matches) : InWindow(matches[k].detection, matches[k].pose)

\* C2: no detection and no pose takes part in more than one match: what a
\* match step removes is gone from its queue, nothing leaves a queue twice,
\* and no detection is twice in the match queue.
C2_MatchedAtMostOnce ==
  /\ Distinct(Ids(det_out))
  /\ Distinct(Ids(pose_out))
  /\ \A i \in 1 .. Len(det_out) : \A k \in 1 .. Len(cam_detection_data_queue) :
       cam_detection_data_queue[k].id # det_out[i].id
  /\ \A i \in 1 .. Len(pose_out) : \A k \in 1 .. Len(cam_pose_queue) :
       cam_pose_queue[k].id # pose_out[i].id
  /\ Distinct([k \in 1 .. Len(matches) |-> matches[k].detection])
  /\ Distinct([k \in 1 .. Len(matches) |-> matches[k].pose])
  /\ Distinct(Ids(detection_pose_match_queue))

\* Two matches have been made.
C2_Witness == Len(matches) >= 2

\* C3: an iteration whose heads are in the window removes both heads and
\* appends that detection to the match queue: a detection removed by the
\* match branch is in the match history, or its iteration is underway.
C3_MatchIterationAppends ==
  \A i \in Left(det_out, "matched") :
    \/ \E k \in 1 .. Len(matches) : matches[k].detection = det_out[i].id
    \/ Underway(det_out[i].id)

\* The step that ends an iteration whose compared heads gave dt < -min_dt
\* removes the head of the pose queue and nothing else.
C4_Step ==
  (/\ match_pc # "loop"
   /\ match_pc' = "loop"
   /\ pose.timestamp - detection.timestamp - frame_to_pose_latency < -min_dt)
  => /\ cam_pose_queue # << >>
     /\ cam_pose_queue' = Tail(cam_pose_queue)
     /\ pose_out' = Append(pose_out, [id |-> Head(cam_pose_queue).id,
                                      how |-> "discarded"])
     /\ UNCHANGED << cam_detection_data_queue, detection_pose_match_queue,
                     heat_map, det_out, matches >>
\* A discarded pose is in no match and is not the pose of a match underway.
C4_Never ==
  \A i \in Left(pose_out, "discarded") :
    /\ \A k \in 1 .. Len(matches) : matches[k].pose # pose_out[i].id
    /\ cam_pose.id # pose_out[i].id
\* C4: when the compared heads give dt < -min_dt, the iteration removes the
\* head of the pose queue and changes neither the detection queue, the match
\* queue nor the grid; a discarded pose is in no match.
C4_DiscardPoseOnly == [][C4_Step]_vars /\ []C4_Never

\* A pose has been discarded.
C4_Witness == Left(pose_out, "discarded") # {}

\* The step that ends an iteration whose compared heads gave dt > min_dt
\* removes the head of the detection queue and nothing else.
C5_Step ==
  (/\ match_pc # "loop"
   /\ match_pc' = "loop"
   /\ pose.timestamp - detection.timestamp - frame_to_pose_latency > min_dt)
  => /\ cam_detection_data_queue # << >>
     /\ cam_detection_data_queue' = Tail(cam_detection_data_queue)
     /\ det_out' = Append(det_out, [id |-> Head(cam_detection_data_queue).id,
                                    how |-> "discarded"])
     /\ UNCHANGED << cam_pose_queue, detection_pose_match_queue, heat_map,
                     pose_out, matches >>
\* A discarded detection is in no match, not in the match queue, and is not
\* the detection of a match underway.
C5_Never ==
  \A i \in Left(det_out, "discarded") :
    /\ \A k \in 1 .. Len(matches) : matches[k].detection # det_out[i].id
    /\ \A k \in 1 .. Len(detection_pose_match_queue) :
         detection_pose_match_queue[k].id # det_out[i].id
    /\ detections.id # det_out[i].id
\* C5: when the compared heads give dt > min_dt, the iteration removes the
\* head of the detection queue and changes neither the pose queue, the match
\* queue nor the grid; a discarded detection is never in the match queue.
C5_DiscardDetectionOnly == [][C5_Step]_vars /\ []C5_Never

\* A detection has been discarded.
C5_Witness == Left(det_out, "discarded") # {}

\* Both streams arrived in timestamp order, nothing overflowed, and the i-th
\* pose is in the window of the i-th detection for every i.
C6_Pre ==
  /\ NonDecreasing(det_log)
  /\ NonDecreasing(pose_log)
  /\ Left(det_out, "evicted") = {}
  /\ Left(pose_out, "evicted") = {}
  /\ \A i \in 1 .. Min(Len(det_log), Len(pose_log)) : InWindow(i, i)
\* C6: if both streams arrive in timestamp order, nothing overflows and the
\* i-th pose is in the window of the i-th detection for every i, the matcher
\* pairs the i-th detection with the i-th pose, in that order, and discards
\* nothing; when it is between iterations (or its thread has ended) and an
\* input queue is empty, every pair that arrived is matched.
C6_MatchesInOrder ==
  C6_Pre =>
    /\ \A k \in 1 .. Len(matches) : matches[k] = [detection |-> k, pose |-> k]
    /\ \A i \in 1 .. Len(det_out) : det_out[i] = [id |-> i, how |-> "matched"]
    /\ \A i \in 1 .. Len(pose_out) : pose_out[i] = [id |-> i, how |-> "matched"]
    /\ (match_pc \in {"loop", "dead"}
          /\ (cam_detection_data_queue = << >> \/ cam_pose_queue = << >>))
         => Len(matches) = Min(Len(det_log), Len(pose_log))

C8_QueuesBounded ==
  /\ Len(cam_detection_data_queue) <= DetectionQueueMaxlen
  /\ Len(cam_pose_queue) <= PoseQueueMaxlen
  /\ Len(detection_pose_match_queue) <= MatchQueueMaxlen

\* The detection queue has overflowed while the pose queue and the match
\* queue are full.
C8_Witness ==
  /\ Left(det_out, "evicted") # {}
  /\ Len(cam_pose_queue) = PoseQueueMaxlen
  /\ Len(detection_pose_match_queue) = MatchQueueMaxlen

\* The last Min(n, maxlen) of the ids 1 .. n, in order.
LastIds(n, maxlen) == [i \in 1 .. Min(n, maxlen) |-> n - Min(n, maxlen) + i]

\* C9: an append to a full queue drops exactly the oldest entry and never
\* blocks: while the matcher has removed nothing, a queue holds the last
\* maxlen items that arrived, in arrival order; the match queue, which nobody
\* pops, always holds the last maxlen matches.
C9_DropOldest ==
  /\ Left(det_out, "matched") \cup Left(det_out, "discarded") = {} =>
       /\ Ids(cam_detection_data_queue) = LastIds(Len(det_log), DetectionQueueMaxlen)
       /\ \A k \in 1 .. Len(cam_detection_data_queue) :
            cam_detection_data_queue[k].timestamp =
              det_log[cam_detection_data_queue[k].id]
  /\ Left(pose_out, "matched") \cup Left(pose_out, "discarded") = {} =>
       /\ Ids(cam_pose_queue) = LastIds(Len(pose_log), PoseQueueMaxlen)
       /\ \A k \in 1 .. Len(cam_pose_queue) :
            cam_pose_queue[k].timestamp = pose_log[cam_pose_queue[k].id]
  /\ Len(detection_pose_match_queue) = Min(Len(matches), MatchQueueMaxlen)
  /\ \A k \in 1 .. Len(detection_pose_match_queue) :
       detection_pose_match_queue[k].id =
         matches[Len(matches) - Len(detection_pose_match_queue) + k].detection
  /\ Len(det_log) < MaxDetections => ENABLED DetectionCollector
  /\ pose_pc = "append" => ENABLED PoseCollector

\* More detections than the queue holds have arrived with no removal by the
\* matcher: the queue is full and the first arrival is gone.
C9_Witness ==
  /\ Len(det_log) > DetectionQueueMaxlen
  /\ Left(det_out, "matched") \cup Left(det_out, "discarded") = {}
  /\ Len(cam_detection_data_queue) = DetectionQueueMaxlen
  /\ Left(det_out, "evicted") # {}

\* The second of two overlapping assignments (a decay and an update that
\* read the same grid) leaves the grid of one of the two serial orders.
C10_Step ==
  (/\ last_write' # last_write
   /\ last_write.by # "none"
   /\ last_write'.by # last_write.by
   /\ last_write'.read = last_write.read
   /\ heat_map # last_write.read)
  => \/ heat_map' = ApplyWrite(last_write', heat_map)
     \/ heat_map' = ApplyWrite(last_write, heat_map')
\* C10: when a decay and an update overlap (both read the same grid before
\* either assigns), the grid after the second assignment is the result of
\* the two operations in one of the two serial orders.
C10_NoLostMutation == [][C10_Step]_vars

\* C12: no exception ends the matcher loop: whatever record the detection
\* collector enqueued and whatever pose the camera reported, the matcher
\* thread is never ended by an exception.
C12_MatcherNeverEnds == match_pc # "dead"

\* C13: a failed or empty camera status poll never stops the pose collector:
\* the collector thread is never ended by an exception and goes on polling.
C13_PoseCollectorNeverEnds == pose_pc # "dead"

\* C14: a datagram that cannot be decoded (malformed JSON, undecodable
\* bytes, a JSON value that is not an object) is ignored: the detection
\* collector thread is never ended by an exception and goes on receiving.
C14_DetectionCollectorNeverEnds == det_pc # "dead"

\* C15: every entry of the match queue carries a `poses` list with one pose
\* per bbox, poses[i] = convert(bboxes[i], P), where P is the pose sample
\* the match step removed from the pose queue (here the one pose collected).
C15_PosesPerBbox ==
  /\ Len(detection_pose_match_queue) = Len(matches)
  /\ \A k \in 1 .. Len(detection_pose_match_queue) :
       LET e == detection_pose_match_queue[k]
       IN  /\ "poses" \in e.keys
           /\ Len(e.poses) = Len(e.bboxes)
           /\ \A i \in 1 .. Len(e.bboxes) :
                e.poses[i] = convert(e.bboxes[i], curr_pose)
           /\ matches[k] = [detection |-> e.id, pose |-> curr_pose.id]
           /\ pose_out = << [id |-> curr_pose.id, how |-> "matched"] >>

\* A detection with two boxes is in the match queue.
C15_Witness ==
  \E k \in 1 .. Len(detection_pose_match_queue) :
    Len(detection_pose_match_queue[k].bboxes) = 2

\* The step that ends a match iteration leaves, for every (pose, score) of
\* the matched detection, at least the score in the cell the pose points to.
C16_Step ==
  (match_pc = "update" /\ match_pc' = "loop") =>
    \A i \in 1 .. UpdateCount(detections) :
      heat_map'[pan_tilt_to_bin(detections.poses[i].pan,
                                detections.poses[i].tilt)]
        >= detections.scores[i]
\* C16: immediately after a match step for a detection with poses p_i and
\* scores s_i, the cell at pan_tilt_to_bin(p_i.pan, p_i.tilt) holds a value
\* >= s_i for every bbox i.
C16_HeatRegistered == [][C16_Step]_vars

\* The cells of the grid g whose clamped heat is >= 0.01, each under the key
\* bin_to_pan_tilt of its indices.
SnapshotOf(g) ==
  { << bin_to_pan_tilt(b[1], b[2]), Clip(g[b], 0, Milli) >> :
      b \in { c \in Bins : Clip(g[c], 0, Milli) >= HeatThreshold } }

\* C11: a call of get_pan_tilt_heat_map that runs beside decay_heatmap /
\* update returns a consistent snapshot: what it returns is the content of
\* one single grid among those it read, every value returned is >= 0.01 and
\* is the value that passed the threshold test.
C11_ConsistentSnapshot ==
  read_pc = "done" =>
    /\ \E g \in read_grids : pan_tilt_map = SnapshotOf(g)
    /\ \A e \in pan_tilt_map : e[2] >= HeatThreshold
    /\ pan_tilt_map = read_tested

\* C17: after any sequence of add_gaussian_heat and subtract_gaussian_heat
\* calls, every value a read operation returns (get_norm_heatval,
\* get_pan_tilt_heat_map, get_heatval_at_pan_tilt, get_map) lies in [0, 1].
C17_ReadsClamped ==
  /\ \A b \in Bins : get_norm_heatval(heat_map, b[1], b[2]) \in 0 .. Milli
  /\ \A e \in pan_tilt_map : e[2] \in 0 .. Milli
  /\ \A p \in HeatPoses :
       get_heatval_at_pan_tilt(heat_map, p.pan, p.tilt) \in 0 .. Milli
  /\ \A b \in Bins : get_map(heat_map)[b] \in 0 .. Milli

\* C18: starting from the zero grid, every cell is >= 0 after every
\* decay_heatmap / subtract_gaussian_heat call, whatever the calls before
\* and whatever the decay strength.
C18_NonNegativeAfterDecay ==
  last_write.by \in {"decay", "subtract"} =>
    \A b \in Bins : heat_map[b] >= 0

\* The heat x kernel of the last add_gaussian_heat call.
C19_Kernel ==
  LET sigma == zoom_to_sigma(last_write.zoom)
  IN  ScaledKernel(last_write.pan, last_write.tilt, sigma[1], sigma[2],
                   last_write.heat)
\* C19: add_gaussian_heat replaces every cell by max(old value, heat x
\* kernel value): no cell decreases through an add, and the same add applied
\* again leaves the grid as it is.
C19_AddIsMax ==
  last_write.by = "add" =>
    /\ \A b \in Bins :
         /\ heat_map[b] >= last_write.read[b]
         /\ heat_map[b] >= C19_Kernel[b]
         /\ heat_map[b] \in {last_write.read[b], C19_Kernel[b]}
    /\ UpdateOne(heat_map, last_write, last_write.heat) = heat_map

\* An add has kept the old value in one cell and raised another.
C19_Witness ==
  /\ last_write.by = "add"
  /\ \E b \in Bins : last_write.read[b] > C19_Kernel[b]
  /\ \E b \in Bins : last_write.read[b] < C19_Kernel[b]

\* A step of get_pan_tilt_heat_map leaves the grid as it is.
C20_Step == reader' # reader => heat_map' = heat_map
\* With no mutation during the call (all its reads were made from the grid
\* as it still is), the result holds exactly the cells whose clamped heat is
\* >= 0.01, each under the key bin_to_pan_tilt of its indices.
C20_Result ==
  (read_pc = "done" /\ read_grids = {heat_map}) =>
    pan_tilt_map = SnapshotOf(heat_map)
\* C20: with no concurrent mutation, get_pan_tilt_heat_map returns exactly
\* the cells whose clamped heat is >= 0.01, each keyed by bin_to_pan_tilt of
\* its indices, and leaves the grid unchanged.
C20_ReadIsExact == [][C20_Step]_vars /\ []C20_Result

\* A call has returned from an unchanged grid that has a cell above 1.0, a
\* cell exactly at the threshold or below it, and a cell in the result.
C20_Witness ==
  /\ read_pc = "done"
  /\ read_grids = {heat_map}
  /\ pan_tilt_map # {}
  /\ \E b \in Bins : heat_map[b] > Milli
  /\ \E b \in Bins : heat_map[b] <= HeatThreshold

\* The poses decay_heatmap has been applied for are the polls 1, 2, ... in
\* order, each once; the last one is not yet enqueued exactly while the
\* collector stands between the decay and the append.
C21_Log ==
  /\ decay_log = [k \in 1 .. Len(decay_log) |-> k]
  /\ Len(decay_log) =
       Len(pose_log) + (IF pose_pc = "append" THEN 1 ELSE 0)
  /\ \A k \in 1 .. Len(cam_pose_queue) :
       Cardinality({ i \in 1 .. Len(decay_log) :
                      decay_log[i] = cam_pose_queue[k].id }) = 1
  /\ curr_pose.id # 0 =>
       Cardinality({ i \in 1 .. Len(decay_log) :
                      decay_log[i] = curr_pose.id }) = 1
\* The decay of a poll is subtract_gaussian_heat at that pose with
\* local_decay, made while the pose has no timestamp, is not curr_pose and is
\* not in the queue; the step that stamps, publishes and appends a pose
\* comes after its decay.
C21_Step ==
  /\ decay_log' # decay_log =>
       /\ heat_map' =
            subtract_gaussian_heat(decay_read, status.pan, status.tilt,
                                   zoom_to_sigma(status.zoom)[1],
                                   zoom_to_sigma(status.zoom)[2], local_decay)
       /\ Len(pose_log) < status.id
       /\ curr_pose.id # status.id
       /\ \A k \in 1 .. Len(cam_pose_queue) : cam_pose_queue[k].id # status.id
       /\ UNCHANGED << curr_pose, cam_pose_queue, pose_log >>
  /\ pose_log' # pose_log =>
       /\ decay_log # << >>
       /\ decay_log[Len(decay_log)] = status.id
       /\ curr_pose'.id = status.id
       /\ cam_pose_queue'[Len(cam_pose_queue')].id = status.id
       /\ UNCHANGED << decay_log, heat_map >>
\* C21: for each successful poll the pose collector applies decay_heatmap
\* with that pose exactly once, before the pose is timestamped, published as
\* curr_pose and appended; no pose is in the pose queue whose decay has not
\* been applied.
C21_DecayBeforeEnqueue == [][C21_Step]_vars /\ []C21_Log

\* The second poll's decay has lowered a grid that held heat, and its pose
\* has then been appended.
C21_Witness ==
  /\ Len(pose_log) = 2
  /\ pose_pc = "get_status"
  /\ last_write.by = "decay"
  /\ heat_map # last_write.read
  /\ cam_pose_queue # << >>
  /\ cam_pose_queue[Len(cam_pose_queue)].id = 2

\* Every queued detection has the key timestamp.
C22_Stamped ==
  \A k \in 1 .. Len(cam_detection_data_queue) :
    "timestamp" \in cam_detection_data_queue[k].keys
\* The step that enqueues the payload det_in': the record appended carries
\* the payload's timestamp when it has one (and the clock is not read), and
\* otherwise the clock value read at that step; the other fields are the
\* payload's.
C22_Step ==
  det_log' # det_log =>
    LET e == cam_detection_data_queue'[Len(cam_detection_data_queue')]
    IN  /\ e.keys = det_in'.keys \cup {"timestamp"}
        /\ e.bboxes = det_in'.bboxes
        /\ e.scores = det_in'.scores
        /\ IF "timestamp" \in det_in'.keys
           THEN e.timestamp = det_in'.timestamp /\ now' = now
           ELSE e.timestamp = now' /\ now' >= now
C23_File ==
  /\ (write_detections /\ match_pc # "write" /\ matches # << >>) =>
       /\ file.written
       /\ Len(file.content) = Len(detection_pose_match_queue)
       /\ \A i \in 1 .. Len(file.content) :
            /\ DOMAIN file.content[i] = detection_pose_match_queue[i].keys
            /\ \A k \in DOMAIN file.content[i] :
                 file.content[i][k] = detection_pose_match_queue[i][k]
  /\ ~write_detections => file = NoFile
  /\ (matches = << >> \/ (Len(matches) = 1 /\ match_pc = "write")) =>
       file = NoFile
\* The file changes only in the last part of a match step of a persisting
\* matcher; a discard step leaves it as it is.
C23_Step ==
  /\ file' # file => (write_detections /\ match_pc = "write")
  /\ match_pc \in {"discard_pose", "discard_detection"} => file' = file
C24_NothingStarted ==
  /\ det_pc = "unstarted"
  /\ pose_pc = "unstarted"
  /\ match_pc = "unstarted"
  /\ det_log = << >>
  /\ pose_log = << >>
  /\ matches = << >>
\* C24: if the UDP socket cannot be bound at construction, construction
\* fails with that error and none of the three background tasks is started;
\* a thread runs only once the socket is bound.
C24_BindFailureAborts ==
  /\ sock = "error" => (ctor_pc = "failed" /\ C24_NothingStarted)
  /\ ctor_pc = "failed" => sock = "error"
  /\ ~C24_NothingStarted => sock = "bound"

\* The bind has failed.
C24_Witness == sock = "error" /\ ctor_pc = "failed"

\* Both queues hold something and the head pose j is too old for the head
\* detection (dt < -min_dt).
C25_PoseHeadStale(j) ==
  /\ cam_detection_data_queue # << >>
  /\ cam_pose_queue # << >>
  /\ PeekLeft(cam_pose_queue).id = j
  /\ TimeDelta(PeekLeft(cam_pose_queue), PeekLeft(cam_detection_data_queue))
       < -min_dt
\* Both queues hold something and the head detection k is too old for the
\* head pose (dt > min_dt).
C25_DetectionHeadStale(k) ==
  /\ cam_detection_data_queue # << >>
  /\ cam_pose_queue # << >>
  /\ PeekLeft(cam_detection_data_queue).id = k
  /\ TimeDelta(PeekLeft(cam_pose_queue), PeekLeft(cam_detection_data_queue))
       > min_dt
\* The pose j, the detection k, is not in its queue.
C25_PoseGone(j) == \A i \in 1 .. Len(cam_pose_queue) : cam_pose_queue[i].id # j
C25_DetectionGone(k) ==
  \A i \in 1 .. Len(cam_detection_data_queue) :
    cam_detection_data_queue[i].id # k
\* An iteration that found both queues non-empty goes to one of the three
\* branches, and each branch removes an element.
C25_Step ==
  /\ (match_pc = "peek_pose" /\ match_pc' # match_pc) =>
       match_pc' \in {"popleft_detection", "discard_pose", "discard_detection"}
  /\ (match_pc \in {"popleft_detection", "discard_detection"}
        /\ match_pc' # match_pc) =>
       Len(cam_detection_data_queue') < Len(cam_detection_data_queue)
  /\ (match_pc = "discard_pose" /\ match_pc' # match_pc) =>
       Len(cam_pose_queue') < Len(cam_pose_queue)
\* C25: under fair scheduling of the matcher loop, a head that lies outside
\* the matching window relative to the other queue's head is eventually
\* removed, and every iteration with both queues non-empty removes at least
\* one element.
C25_StaleHeadsLeave ==
  /\ [][C25_Step]_vars
  /\ \A j \in 1 .. MaxPoses : C25_PoseHeadStale(j) ~> C25_PoseGone(j)
  /\ \A k \in 1 .. MaxDetections :
       C25_DetectionHeadStale(k) ~> C25_DetectionGone(k)

\* C26: the dialog's operations (update_plot, update_pose_label,
\* on_canvas_click, change_zoom) leave the heatmap grid, the match queue,
\* curr_pose and the entries of the pose queue as they are.
C26_UiReadsOnly ==
  [][ui' # ui =>
       UNCHANGED << heat_map, detection_pose_match_queue, curr_pose,
                    cam_pose_queue >>]_vars

\* C27: for every pan and tilt (negative pan, pan >= 360, tilt at and
\* beyond -90 and 90), pan_tilt_to_bin returns 0 <= p_idx <= pan_bins - 1
\* and 0 <= t_idx <= tilt_bins - 1.
C27_BinInRange ==
  call.fn = "pan_tilt_to_bin" =>
    /\ call.result[1] \in 0 .. pan_bins - 1
    /\ call.result[2] \in 0 .. tilt_bins - 1

\* pan_tilt_to_bin has returned for a pan of 360 or more and a tilt of 90.
C27_Witness ==
  /\ call.fn = "pan_tilt_to_bin"
  /\ call.args.pan >= 360
  /\ call.args.tilt = 90

C29_ReversedZoomsOut ==
  (/\ call.fn = "convert"
   /\ call.args.zoom > 0
   /\ call.args.bbox \in NormalBoxes) =>
    LET r == Reversed(call.args.bbox)
        normal == scale(call.args.bbox)
        reversed == scale(r)
    IN  /\ ~ConvertRaises(r, CallPose(call.args))
        /\ reversed[1] * normal[2] < normal[1] * reversed[2]
        /\ convert(r, CallPose(call.args)).zoom <= call.result.zoom

\* convert has returned for the box (50, 50, 100, 150) at zoom 10.
C29_Witness ==
  /\ call.fn = "convert"
  /\ call.args.zoom = 100
  /\ call.args.bbox = << 50, 50, 100, 150 >>

\* A call of convert leaves its arguments as they are.
C30_Step == call'.fn \in {"convert", "convert_raised"} => call'.args = call.args
\* A call with a box of no width and a zoom other than 0 returns a dict with
\* pan, tilt and zoom.
C30_Returns ==
  (/\ call.fn \in {"convert", "convert_raised"}
   /\ call.args.bbox[1] = call.args.bbox[3]
   /\ call.args.zoom # 0) =>
    /\ call.fn = "convert"
    /\ DOMAIN call.result = {"pan", "tilt", "zoom"}
\* C30: convert raises no exception for a box of no width (x0 = x1) given a
\* pose with non-zero zoom: it returns a pose with pan, tilt and zoom and
\* changes neither its arguments nor the converter.
C30_ZeroWidthReturns == [][C30_Step]_vars /\ []C30_Returns

\* convert has returned for a box of no width.
C30_Witness ==
  /\ call.fn = "convert"
  /\ call.args.bbox = << 100, 50, 100, 150 >>
  /\ call.args.zoom = 100

\* C31: audio alerts obey the cooldown: an alert follows the alert before
\* it by at least alarm_cool_down_s seconds, and a detection that meets its
\* class threshold after the cooldown has elapsed triggers an alert.
C31_Step ==
  alarm'.calls # alarm.calls =>
    /\ (alarm'.alert /\ alarm.last_alert >= 0) =>
         alarm'.last_alert - alarm.last_alert >= alarm.alarm_cool_down_s
    /\ (alarm'.met /\ alarm'.elapsed >= alarm.alarm_cool_down_s) =>
         alarm'.alert
C31_CooldownObeyed == [][C31_Step]_vars

\* A step of the matcher from the top of its loop with an input queue empty
\* ends the iteration there and changes no queue, not the heatmap, not the
\* file, and removes and matches nothing.
C32_Step ==
  (/\ match_pc = "loop"
   /\ Starved
   /\ (slept' # slept \/ match_pc' # match_pc)) =>
    /\ match_pc' = "loop"
    /\ slept'
    /\ UNCHANGED << cam_detection_data_queue, cam_pose_queue,
                    detection_pose_match_queue, heat_map, file >>
    /\ UNCHANGED << det_out, pose_out, matches, last_write >>
\* An iteration is past the test of line 238 only with something in both
\* queues.
C32_PastTheTest ==
  match_pc = "peek_pose" =>
    cam_detection_data_queue # << >> /\ cam_pose_queue # << >>
\* C32: a matcher iteration that finds the detection queue or the pose queue
\* empty is a no-op on shared state: it removes nothing from either input
\* queue, appends nothing to the match queue, does not change the heatmap
\* and writes no file.
C32_StarvedIsNoOp == [][C32_Step]_vars /\ []C32_PastTheTest

\* The matcher has slept with a detection waiting and no pose, after an
\* earlier match was written to the file.
C32_Witness ==
  /\ slept
  /\ match_pc = "loop"
  /\ cam_detection_data_queue # << >>
  /\ cam_pose_queue = << >>
  /\ file.written

\* C33: subtract_gaussian_heat multiplies every cell by (1 - heat x kernel
\* value): for heat in [0, 1] and a non-negative grid no cell increases, and
\* decay_heatmap multiplies the cell at the camera's own bin
\* pan_tilt_to_bin(pose.pan, pose.tilt) by exactly (1 - local_decay).
C33_SubtractMultiplies ==
  last_write.by \in {"decay", "subtract"} =>
    LET read == last_write.read
        own == pan_tilt_to_bin(last_write.pan, last_write.tilt)
    IN  /\ \A b \in Bins :
             heat_map[b] = TruncDiv(read[b] * (Milli - C19_Kernel[b]), Milli)
        /\ (last_write.heat \in 0 .. Milli /\ \A b \in Bins : read[b] >= 0) =>
             \A b \in Bins : heat_map[b] <= read[b]
        /\ last_write.by = "decay" =>
             heat_map[own] = TruncDiv(read[own] * (Milli - local_decay), Milli)

\* decay_heatmap has taken a tenth off a heated cell at the camera's bin and
\* left the other cell, outside the kernel, as it was.
C33_Witness ==
  /\ last_write.by = "decay"
  /\ \E b \in Bins :
       /\ b = pan_tilt_to_bin(last_write.pan, last_write.tilt)
       /\ last_write.read[b] > Milli
       /\ heat_map[b] < last_write.read[b]
  /\ \E b \in Bins : heat_map[b] = last_write.read[b] /\ heat_map[b] > 0

\* The fields of a detection record other than `poses`.
C34_Fields(d) ==
  [keys |-> d.keys \ {"poses"}, timestamp |-> d.timestamp,
   bboxes |-> d.bboxes, scores |-> d.scores]
\* The detection records there are: in the detection queue, popped by the
\* matcher, in the match queue.
C34_Records ==
  { cam_detection_data_queue[i] : i \in 1 .. Len(cam_detection_data_queue) }
    \cup { detection_pose_match_queue[i] :
             i \in 1 .. Len(detection_pose_match_queue) }
    \cup (IF detections.id = 0 THEN {} ELSE {detections})
\* No step changes a field other than `poses` of a record.
C34_Step ==
  \A r \in C34_Records :
    \A q \in C34_Records' : q.id = r.id => C34_Fields(q) = C34_Fields(r)
\* An entry of the match queue has the timestamp its record was enqueued
\* with and the keys, boxes and scores of a datagram with that timestamp.
C34_Matched ==
  \A i \in 1 .. Len(detection_pose_match_queue) :
    LET e == detection_pose_match_queue[i]
    IN  /\ e.timestamp = det_log[e.id]
        /\ \E d \in Datagrams :
             C34_Fields(e) =
               [keys |-> d.keys, timestamp |-> d.timestamp,
                bboxes |-> d.bboxes, scores |-> d.scores]
\* C34: matching changes a detection record only by setting its `poses`
\* field: the bboxes, scores and timestamp of an entry in the match queue
\* are the values the record had when it was enqueued in the detection
\* queue.
C34_OnlyPosesSet == [][C34_Step]_vars /\ []C34_Matched

\* A record is in the match queue with its poses, matched with a pose of a
\* later timestamp.
C34_Witness ==
  /\ detection_pose_match_queue # << >>
  /\ Len(detection_pose_match_queue[1].poses) = 1
  /\ \E k \in 1 .. Len(matches) :
       /\ matches[k].detection = detection_pose_match_queue[1].id
       /\ pose_log[matches[k].pose] > detection_pose_match_queue[1].timestamp

\* A popleft of the matcher (a match or a discard) removes the detection,
\* or the pose, whose timestamp the iteration compared.
C35_Step ==
  /\ (/\ Len(det_out') > Len(det_out)
      /\ det_out'[Len(det_out')].how # "evicted") =>
       det_out'[Len(det_out')].id = detection.id
  /\ (/\ Len(pose_out') > Len(pose_out)
      /\ pose_out'[Len(pose_out')].how # "evicted") =>
       pose_out'[Len(pose_out')].id = pose.id
\* C35: in every matcher iteration the elements removed from the input
\* queues are the elements whose timestamps were compared in that iteration,
\* also in the two discard branches and also when a collector appends to a
\* full queue between the peek and the popleft; the matcher never removes an
\* element it has not compared.
C35_RemovesWhatItCompared == [][C35_Step]_vars

\* C36: if both streams are enqueued in non-decreasing timestamp order, the
\* greedy discard loses no feasible match: a pose the matcher has discarded
\* is in the window of no detection in the detection queue, then or later,
\* and a detection it has discarded is in the window of no pose in the pose
\* queue, then or later.
C36_DiscardLosesNoMatch ==
  (NonDecreasing(det_log) /\ NonDecreasing(pose_log)) =>
    /\ \A i \in Left(pose_out, "discarded") :
         \A n \in 1 .. Len(cam_detection_data_queue) :
           ~InWindow(cam_detection_data_queue[n].id, pose_out[i].id)
    /\ \A i \in Left(det_out, "discarded") :
         \A n \in 1 .. Len(cam_pose_queue) :
           ~InWindow(det_out[i].id, cam_pose_queue[n].id)

\* The detection, and the pose, that a match step has popped and not yet
\* appended to the match queue: 1 while the step is underway, else 0.
C37_DetectionInHand ==
  IF match_pc \in {"popleft_pose", "update", "update_write"} THEN 1 ELSE 0
C37_PoseInHand == IF match_pc \in {"update", "update_write"} THEN 1 ELSE 0
\* C37: detections are conserved: the number of detections enqueued by the
\* collector equals the number still in the detection queue plus the number
\* matched plus the number discarded by the matcher plus the number evicted
\* by overflow (plus the one a match step underway holds), and the number of
\* matched detections equals the number of poses removed by match steps.
C37_Conserved ==
  /\ Len(det_log) =
       Len(cam_detection_data_queue) + Len(matches)
         + Cardinality(Left(det_out, "discarded"))
         + Cardinality(Left(det_out, "evicted")) + C37_DetectionInHand
  /\ Len(matches) + C37_PoseInHand = Cardinality(Left(pose_out, "matched"))

\* The largest heat passed to an add so far.
C38_Largest == CHOOSE h \in added : \A g \in added : g <= h
\* C38 as stated: every grid cell is at most the largest heat (score) ever
\* passed to an add, and at most 1 when all scores are in [0, 1].
C38_AtMostLargestHeat ==
  added # {} =>
    /\ \A b \in Bins : heat_map[b] <= C38_Largest
    /\ (\A h \in added : h \in 0 .. Milli) =>
         \A b \in Bins : heat_map[b] <= Milli
\* C38, amended: heat never accumulates beyond what was added: after any
\* sequence of update / add_gaussian_heat and decay_heatmap calls, every
\* grid cell is at most the largest heat ever passed to an add, or 0 when
\* that heat is negative or nothing was added, and at most 1 when all
\* scores are in [0, 1].
C38_AtMostLargestHeatOrZero ==
  /\ \A b \in Bins :
       heat_map[b] <= (IF added = {} THEN 0 ELSE Max(0, C38_Largest))
  /\ (\A h \in added : h \in 0 .. Milli) =>
       \A b \in Bins : heat_map[b] <= Milli

\* Two different heats were added, the larger above 1, and a cell holds the
\* larger one.
C38_Witness ==
  /\ Cardinality(added) = 2
  /\ C38_Largest > Milli
  /\ \E b \in Bins : heat_map[b] = C38_Largest

====
